---- MODULE Spec2Model ----
(***************************************************************************)
(* A model of the register / ALU / flag / RAM / counter substrate of the   *)
(* 8-bit CPU emulator (src/utils.py).  Words are Python strings, modelled  *)
(* as sequences of one-character strings.                                  *)
(***************************************************************************)
EXTENDS Integers, Sequences, FiniteSets, TLC

VARIABLES
    a,              \* operand register a of the ALU (ByteRegister.state)
    b,              \* operand register b of the ALU (ByteRegister.state)
    alu,            \* ALU.state
    carry,          \* FlagCarry.state (the flag watches the ALU)
    acc,            \* the ByteRegister watched by the Minus and Zero flags
    minus,          \* FlagMinus.state
    zero,           \* FlagZero.state
    ram,            \* RAM.state: cell index 0..15 -> stored word
    ramLog,         \* history: the RAM.write calls that returned normally
    pc,             \* ProgramCounter.state
    pcCount,        \* history: advance() calls since the zero state, -1 once unknown
    n_time_states,  \* RingCounter.n_time_states
    ring,           \* RingCounter.state
    ringHist,       \* history: read() value after construction and after each advance()
    cw,             \* codec check: the word under conversion
    cv,             \* codec check: the decoded integer
    cr,             \* codec check: the re-encoded word
    op,             \* the last call made: <<name, arguments...>>
    ret,            \* what the last call returned ("None" when it returned nothing)
    err,            \* the exception the last call raised, "none" when it returned
    ir,             \* InstructionRegister.state
    zeroAlu,        \* state of a FlagZero whose watched source is the ALU
    hx,             \* hex_to_binary check: the hexadecimal digits of the argument
    hp,             \* hex_to_binary check: whether the argument carries the 0x prefix
    hw,             \* hex_to_binary check: the bit_width argument
    clock,          \* Clock.state
    logFile,        \* contents of the file at Clock.log_file_path
    clockCalls      \* history: the renderings passed to Clock.advance, in call order

vars == <<a, b, alu, carry, acc, minus, zero, ram, ramLog, pc, pcCount,
          n_time_states, ring, ringHist, cw, cv, cr, op, ret, err,
          ir, zeroAlu, hx, hp, hw, clock, logFile, clockCalls>>

aluVars   == <<a, b, alu, carry>>
flagVars  == <<acc, minus, zero>>
ramVars   == <<ram, ramLog>>
pcVars    == <<pc, pcCount>>
ringVars  == <<n_time_states, ring, ringHist>>
codecVars == <<cw, cv, cr>>
hexVars   == <<hx, hp, hw>>
clockVars == <<clock, logFile, clockCalls>>
extVars   == <<ir, zeroAlu, hexVars, clockVars>>

----------------------------------------------------------------------------
(* Bounds *)

\* operand words are those whose signed value lies within Near of 0
Near == 5
\* ... or within EdgeNear of -128 or of 127
EdgeNear == 1
\* number of RAM.write calls in one behaviour
MaxWrites == 2
\* how far past either end of the 16 cells an address argument may lie
AddrSlack == 2
\* largest ring-counter modulus
MaxN == 5
\* number of RingCounter.advance calls in one behaviour is at most MaxN + RingExtra
RingExtra == 6
\* number of ProgramCounter.advance calls counted from the zero state
MaxPcCount == 33

----------------------------------------------------------------------------
(* Python primitives used by the source *)

Bit == {"0", "1"}

Words(k) == [1..k -> Bit]

Min(x, y) == IF x < y THEN x ELSE y

\* s[lo:hi] for 0 <= lo <= hi
Slice(s, lo, hi) == SubSeq(s, lo + 1, Min(hi, Len(s)))

\* int(s, 2) for a non-empty string of bit characters
RECURSIVE int2(_)
int2(s) ==
    IF Len(s) = 0 THEN 0
    ELSE 2 * int2(SubSeq(s, 1, Len(s) - 1)) + (IF s[Len(s)] = "1" THEN 1 ELSE 0)

\* the digits of bin(n) for n >= 0, without the "0b" prefix
RECURSIVE BinDigits(_)
BinDigits(n) ==
    IF n < 2 THEN <<IF n = 1 THEN "1" ELSE "0">>
    ELSE BinDigits(n \div 2) \o <<IF n % 2 = 1 THEN "1" ELSE "0">>

\* bin(n)[2:]: bin(5) = "0b101" gives "101"; bin(-5) = "-0b101" gives "b101"
bin_2(n) == IF n >= 0 THEN BinDigits(n) ELSE <<"b">> \o BinDigits(-n)

\* s.zfill(w) for a string without a sign prefix
zfill(s, w) == IF Len(s) >= w THEN s ELSE [i \in 1..(w - Len(s)) |-> "0"] \o s

----------------------------------------------------------------------------
(* FUNCTIONS *)

binary_to_decimal_unsigned(binary_string) == int2(binary_string)

binary_to_decimal(binary_string) ==
    IF binary_string[1] = "1"
    THEN int2(binary_string) - 2^Len(binary_string)
    ELSE int2(binary_string)

decimal_to_binary_nowrap(decimal_number, bit_width) ==
    zfill(bin_2(decimal_number), bit_width)

decimal_to_binary_nopad(decimal_number, bit_width) ==
    IF decimal_number < 0
    THEN bin_2(decimal_number + 2^bit_width)
    ELSE bin_2(decimal_number)

decimal_to_binary(decimal_number, bit_width) ==
    zfill(IF decimal_number < 0
          THEN bin_2(decimal_number + 2^bit_width)
          ELSE bin_2(decimal_number),
          bit_width)

----------------------------------------------------------------------------
(* Reference encodings, defined positionally and independently of the code *)

BitAt(w, i) == IF w[i] = "1" THEN 1 ELSE 0

\* unsigned value of an 8-bit word
Unsigned8(w) ==
    128 * BitAt(w, 1) + 64 * BitAt(w, 2) + 32 * BitAt(w, 3) + 16 * BitAt(w, 4)
    + 8 * BitAt(w, 5) + 4 * BitAt(w, 6) + 2 * BitAt(w, 7) + BitAt(w, 8)

\* two's-complement value of an 8-bit word: the top bit weighs -128
Signed8(w) == Unsigned8(w) - 256 * BitAt(w, 1)

\* the 8-bit word whose unsigned value is v modulo 2^8
Enc8(v) == [i \in 1..8 |-> IF ((v % 256) \div 2^(8 - i)) % 2 = 1 THEN "1" ELSE "0"]

\* unsigned value of a 4-bit word, and the 4-bit word of v modulo 2^4
Unsigned4(w) == 8 * BitAt(w, 1) + 4 * BitAt(w, 2) + 2 * BitAt(w, 3) + BitAt(w, 4)
Enc4(v) == [i \in 1..4 |-> IF ((v % 16) \div 2^(4 - i)) % 2 = 1 THEN "1" ELSE "0"]

Zero8 == [i \in 1..8 |-> "0"]
Zero4 == [i \in 1..4 |-> "0"]

----------------------------------------------------------------------------
(* Construction: the state every object has after its __init__ *)

\* the instruction register, the ALU-watching Zero flag, the clock and an
\* absent log file; no hex_to_binary call in progress
ExtConstructed ==
    /\ ir = Zero8 /\ zeroAlu = 0
    /\ hx = <<"0">> /\ hp = FALSE /\ hw = 8
    /\ clock = 0 /\ logFile = <<>> /\ clockCalls = <<>>

CoreConstructed ==
    /\ a = Zero8 /\ b = Zero8 /\ alu = Zero8 /\ carry = 0
    /\ acc = Zero8 /\ minus = 0 /\ zero = 0
    /\ ram = [i \in 0..15 |-> Zero8] /\ ramLog = <<>>
    /\ pc = Zero4 /\ pcCount = 0
    /\ ring = 0 /\ ringHist = <<0>>
    /\ cw = Zero8 /\ cv = 0 /\ cr = Zero8
    /\ op = <<"init">> /\ ret = "None" /\ err = "none"

Constructed == CoreConstructed /\ ExtConstructed

----------------------------------------------------------------------------
(* ALU and Carry flag *)

OperandWords ==
    {w \in Words(8) :
        \/ Signed8(w) >= -Near /\ Signed8(w) <= Near
        \/ Signed8(w) >= 127 - EdgeNear
        \/ Signed8(w) <= -128 + EdgeNear}

Modes == {"add", "sub"}

\* Register.write on operand register a
WriteA(data) ==
    /\ a' = data
    /\ op' = <<"a.write", data>> /\ ret' = "None" /\ err' = "none"
    /\ UNCHANGED <<b, alu, carry, flagVars, ramVars, pcVars, ringVars, codecVars, extVars>>

\* Register.write on operand register b
WriteB(data) ==
    /\ b' = data
    /\ op' = <<"b.write", data>> /\ ret' = "None" /\ err' = "none"
    /\ UNCHANGED <<a, alu, carry, flagVars, ramVars, pcVars, ringVars, codecVars, extVars>>

\* the word ALU.update(mode) stores
\* the stored word is reused once it is no longer the initial one
ALUResult_cached(mode) ==
    LET value_a == binary_to_decimal(a)
        value_b == binary_to_decimal(b)
        result  == IF mode = "add" THEN value_a + value_b ELSE value_a - value_b
    IN  IF alu # Zero8 THEN alu ELSE Slice(decimal_to_binary(result, 8), 0, 8)

ALUResult(mode) ==
    LET value_a == binary_to_decimal(a)
        value_b == binary_to_decimal(b)
        result  == IF mode = "add" THEN value_a + value_b ELSE value_a - value_b
    IN  Slice(decimal_to_binary(result, 8), 0, 8)

ALUUpdate(mode) ==
    /\ alu' = ALUResult(mode)
    /\ op' = <<"ALU.update", mode>> /\ ret' = "None" /\ err' = "none"
    /\ UNCHANGED <<a, b, carry, flagVars, ramVars, pcVars, ringVars, codecVars, extVars>>

ALURead(mode) ==
    /\ alu' = ALUResult(mode)
    /\ op' = <<"ALU.read", mode>> /\ ret' = alu' /\ err' = "none"
    /\ UNCHANGED <<a, b, carry, flagVars, ramVars, pcVars, ringVars, codecVars, extVars>>

FlagCarryValue_ge ==
    IF binary_to_decimal(a) + binary_to_decimal(b) >= 2^7 - 1 THEN 1 ELSE 0

FlagCarryValue ==
    IF binary_to_decimal(a) + binary_to_decimal(b) > 2^7 - 1 THEN 1 ELSE 0

FlagCarryUpdate ==
    /\ carry' = FlagCarryValue
    /\ op' = <<"FlagCarry.update">> /\ ret' = "None" /\ err' = "none"
    /\ UNCHANGED <<a, b, alu, flagVars, ramVars, pcVars, ringVars, codecVars, extVars>>

\* a read that recomputes the flag first, as the other two flags do
FlagCarryRead_fresh ==
    /\ carry' = FlagCarryValue
    /\ op' = <<"FlagCarry.read">> /\ ret' = carry' /\ err' = "none"
    /\ UNCHANGED <<a, b, alu, flagVars, ramVars, pcVars, ringVars, codecVars, extVars>>

FlagCarryRead ==
    /\ op' = <<"FlagCarry.read">> /\ ret' = carry /\ err' = "none"
    /\ UNCHANGED <<aluVars, flagVars, ramVars, pcVars, ringVars, codecVars, extVars>>

InitALU == Constructed /\ n_time_states = 1

NextALU ==
    \/ \E data \in OperandWords : WriteA(data)
    \/ \E data \in OperandWords : WriteB(data)
    \/ \E mode \in Modes : ALUUpdate(mode)
    \/ \E mode \in Modes : ALURead(mode)
    \/ FlagCarryUpdate
    \/ FlagCarryRead

SpecALU == InitALU /\ [][NextALU]_vars

----------------------------------------------------------------------------
\* C1: ALU.read('add') / ALU.read('sub') return exactly 8 characters, the
\* two's-complement encoding of signed(a) + signed(b), resp. signed(a) -
\* signed(b), wrapped modulo 2^8.
C1_ALUWraps ==
    (op[1] = "ALU.read") =>
        /\ err = "none"
        /\ Len(ret) = 8
        /\ ret = Enc8(IF op[2] = "add" THEN Signed8(a) + Signed8(b)
                                       ELSE Signed8(a) - Signed8(b))

\* an addition that overflows past 127 and a subtraction that goes below -128
C1_Witness_Overflow ==
    /\ op = <<"ALU.read", "add">>
    /\ Signed8(a) + Signed8(b) > 127
    /\ Len(ret) = 8 /\ Signed8(ret) < 0

----------------------------------------------------------------------------
(* Minus and Zero flags watching a byte register *)

\* Register.write on the watched register
WriteAcc(data) ==
    /\ acc' = data
    /\ op' = <<"acc.write", data>> /\ ret' = "None" /\ err' = "none"
    /\ UNCHANGED <<minus, zero, aluVars, ramVars, pcVars, ringVars, codecVars, extVars>>

FlagMinusValue == IF binary_to_decimal(acc) < 0 THEN 1 ELSE 0

\* FlagMinus.update(self) declares one positional parameter
FlagMinusUpdateParams == 1
\* FlagMinus.read calls self.update(self): the bound self plus one explicit argument
FlagMinusReadPasses == 2

FlagMinusUpdate ==
    /\ minus' = FlagMinusValue
    /\ op' = <<"FlagMinus.update">> /\ ret' = "None" /\ err' = "none"
    /\ UNCHANGED <<acc, zero, aluVars, ramVars, pcVars, ringVars, codecVars, extVars>>

FlagMinusRead ==
    /\ op' = <<"FlagMinus.read">>
    /\ IF FlagMinusReadPasses = FlagMinusUpdateParams
       THEN /\ minus' = FlagMinusValue
            /\ ret' = minus' /\ err' = "none"
       ELSE \* the call of update raises before its body runs
            /\ minus' = minus
            /\ ret' = "None" /\ err' = "TypeError"
    /\ UNCHANGED <<acc, zero, aluVars, ramVars, pcVars, ringVars, codecVars, extVars>>

FlagZeroValue_sticky == IF zero = 1 \/ binary_to_decimal(acc) = 0 THEN 1 ELSE 0

FlagZeroValue == IF binary_to_decimal(acc) = 0 THEN 1 ELSE 0

FlagZeroUpdate ==
    /\ zero' = FlagZeroValue
    /\ op' = <<"FlagZero.update">> /\ ret' = "None" /\ err' = "none"
    /\ UNCHANGED <<acc, minus, aluVars, ramVars, pcVars, ringVars, codecVars, extVars>>

FlagZeroRead ==
    /\ zero' = FlagZeroValue
    /\ op' = <<"FlagZero.read">> /\ ret' = zero' /\ err' = "none"
    /\ UNCHANGED <<acc, minus, aluVars, ramVars, pcVars, ringVars, codecVars, extVars>>

InitFlags == Constructed /\ n_time_states = 1

NextFlags ==
    \/ \E data \in Words(8) : WriteAcc(data)
    \/ FlagMinusUpdate
    \/ FlagMinusRead
    \/ FlagZeroUpdate
    \/ FlagZeroRead

SpecFlags == InitFlags /\ [][NextFlags]_vars

\* C3: FlagMinus.read() completes normally and returns 1 when the watched
\* register's current word has its most significant bit set (decodes to a
\* negative value), and 0 otherwise.
C3_MinusReadReturnsSign ==
    (op[1] = "FlagMinus.read") =>
        /\ err = "none"
        /\ ret = (IF acc[1] = "1" THEN 1 ELSE 0)

\* C4: FlagZero.read() returns 1 iff the word currently stored in the watched
\* register decodes to 0, whatever the register held before and whatever
\* the flag held before.
C4_ZeroReadFresh ==
    (op[1] = "FlagZero.read") =>
        /\ err = "none"
        /\ ret = (IF Signed8(acc) = 0 THEN 1 ELSE 0)
        /\ (ret = 1) <=> (acc = Zero8)

\* a read that returns 0 for the nonzero word 10000000
C4_Witness_ZeroCleared ==
    /\ op[1] = "FlagZero.read" /\ ret = 0 /\ zero = 0 /\ acc = Enc8(128)

----------------------------------------------------------------------------
(* RAM *)

\* a Python value passed as the data argument of RAM.write
PyStr(s) == [type |-> "str", val |-> s]
PyInt(i) == [type |-> "int", val |-> i]

\* list indexing self.state[address] on the 16-element list: the cell that
\* is accessed, or -1 when Python raises IndexError
ListIndex(address) ==
    IF address >= 0 /\ address < 16 THEN address
    ELSE IF address < 0 /\ address >= -16 THEN address + 16
    ELSE -1

\* the cell RAM.write stores into
WriteCell_next(address) == ListIndex((address + 1) % 16)

WriteCell(address) == ListIndex(address)

RAMWrite(data, address) ==
    /\ Len(ramLog) < MaxWrites
    /\ op' = <<"RAM.write", data, address>>
    /\ ret' = "None"
    /\ IF data.type # "str" \/ Len(data.val) # 8
       THEN /\ err' = "AssertionError"
            /\ UNCHANGED ramVars
       ELSE IF WriteCell(address) = -1
       THEN /\ err' = "IndexError"
            /\ UNCHANGED ramVars
       ELSE /\ err' = "none"
            /\ ram' = [ram EXCEPT ![WriteCell(address)] = data.val]
            /\ ramLog' = Append(ramLog, <<data.val, address>>)
    /\ UNCHANGED <<aluVars, flagVars, pcVars, ringVars, codecVars, extVars>>

RAMRead(address) ==
    /\ op' = <<"RAM.read", address>>
    /\ IF ListIndex(address) = -1
       THEN ret' = "None" /\ err' = "IndexError"
       ELSE ret' = ram[ListIndex(address)] /\ err' = "none"
    /\ UNCHANGED <<ramVars, aluVars, flagVars, pcVars, ringVars, codecVars, extVars>>

\* an 8-character string that is not a bit string
WordX == [i \in 1..8 |-> IF i = 8 THEN "x" ELSE "0"]

\* 8-character words
GoodData == {PyStr(Enc8(165)), PyStr(Enc8(0))}

\* arguments that are not 8-character bit strings
BadData == {PyStr([i \in 1..7 |-> "1"]), PyStr([i \in 1..9 |-> "1"]),
            PyStr(WordX), PyInt(5)}

\* address arguments within AddrSlack of either end of 0..15 and of -16..-1
EdgeAddrs ==
    {x \in (-16 - AddrSlack)..(15 + AddrSlack) :
        \/ x <= -16 + AddrSlack
        \/ x >= -AddrSlack /\ x <= AddrSlack
        \/ x >= 15 - AddrSlack}

InitRAM == Constructed /\ n_time_states = 1

\* calls with 8-character words and addresses 0..15
NextRAM ==
    \/ \E data \in GoodData, address \in 0..15 : RAMWrite(data, address)
    \/ \E address \in 0..15 : RAMRead(address)

SpecRAM == InitRAM /\ [][NextRAM]_vars

\* calls with any data and any address
NextRAMErr ==
    \/ \E data \in {PyStr(Enc8(165))} \cup BadData, address \in EdgeAddrs :
          RAMWrite(data, address)
    \/ \E address \in EdgeAddrs : RAMRead(address)

SpecRAMErr == InitRAM /\ [][NextRAMErr]_vars

Max(S) == CHOOSE x \in S : \A y \in S : y <= x

\* the word of the last call in log that wrote to address x, zeros if none
LastWritten(log, x) ==
    LET idx == {i \in 1..Len(log) : log[i][2] = x}
    IN  IF idx = {} THEN Zero8 ELSE log[Max(idx)][1]

\* C5: after any sequence of RAM.write calls with 8-character words and
\* addresses in 0..15, every address reads the word most recently written
\* to it, or 00000000 if it was never written.
C5_ReadsLastWrite ==
    /\ \A x \in 0..15 : ram[x] = LastWritten(ramLog, x)
    /\ (op[1] = "RAM.read") =>
          (err = "none" /\ ret = LastWritten(ramLog, op[2]))
    /\ (op[1] = "RAM.write") => err = "none"

\* an address written twice reads the second word while another written
\* address keeps its own
C5_Witness_Overwrite ==
    /\ Len(ramLog) = 2
    /\ ramLog[1][2] = ramLog[2][2] /\ ramLog[1][1] # ramLog[2][1]
    /\ op[1] = "RAM.read" /\ op[2] = ramLog[2][2] /\ ret = ramLog[2][1]

IsBitWord8(data) ==
    /\ data.type = "str"
    /\ Len(data.val) = 8
    /\ \A i \in 1..8 : data.val[i] \in Bit

\* C6: RAM.write (to an address in 0..15) fails with a validation error and
\* leaves all 16 words unchanged whenever data is not an 8-character bit
\* string (wrong length, or length 8 with a character other than 0 and 1).
C6_RejectsNonBitWords ==
    [][(op'[1] = "RAM.write" /\ ~IsBitWord8(op'[2]) /\ op'[3] \in 0..15) =>
          (err' = "AssertionError" /\ ram' = ram)]_vars

\* C7: RAM.read and RAM.write (of a valid word) with an address outside
\* [0,16), negative addresses included, fail with an indexing error and
\* change no stored word.
C7_RejectsOutOfRange ==
    [][(\/ op'[1] = "RAM.read" /\ op'[2] \notin 0..15
        \/ op'[1] = "RAM.write" /\ IsBitWord8(op'[2]) /\ op'[3] \notin 0..15) =>
          (err' = "IndexError" /\ ram' = ram)]_vars

----------------------------------------------------------------------------
(* Program counter *)

\* NibbleRegister.write on the program counter
PCWrite(data) ==
    /\ pc' = data
    /\ pcCount' = IF data = Zero4 THEN 0 ELSE -1
    /\ op' = <<"PC.write", data>> /\ ret' = "None" /\ err' = "none"
    /\ UNCHANGED <<aluVars, flagVars, ramVars, ringVars, codecVars, extVars>>

\* the word ProgramCounter.advance stores
PCNext_nomod ==
    LET value == int2(pc) + 1
    IN  zfill(bin_2(value), 4)

PCNext_nopad ==
    LET value == (int2(pc) + 1) % 2^4
    IN  bin_2(value)

PCNext ==
    LET value == (int2(pc) + 1) % 2^4
    IN  zfill(bin_2(value), 4)

PCAdvance ==
    /\ pcCount < MaxPcCount
    /\ pc' = PCNext
    /\ pcCount' = IF pcCount = -1 THEN -1 ELSE pcCount + 1
    /\ op' = <<"PC.advance">> /\ ret' = "None" /\ err' = "none"
    /\ UNCHANGED <<aluVars, flagVars, ramVars, ringVars, codecVars, extVars>>

PCRead ==
    /\ op' = <<"PC.read">> /\ ret' = pc /\ err' = "none"
    /\ UNCHANGED <<pcVars, aluVars, flagVars, ramVars, ringVars, codecVars, extVars>>

InitPC == Constructed /\ n_time_states = 1

NextPC ==
    \/ \E data \in Words(4) : PCWrite(data)
    \/ PCAdvance
    \/ PCRead

SpecPC == InitPC /\ [][NextPC]_vars

\* C8: ProgramCounter.advance() never fails and replaces a 4-bit word of
\* unsigned value v by the zero-padded 4-bit encoding of (v+1) mod 16; after
\* k advances from the zero state the counter holds k mod 16, so after 16 it
\* is back at 0000.
C8_AdvanceMod16 ==
    /\ [][(op'[1] = "PC.advance") =>
            (err' = "none" /\ Len(pc') = 4 /\ pc' = Enc4((Unsigned4(pc) + 1) % 16))]_vars
    /\ [](pcCount >= 0 => pc = Enc4(pcCount % 16))
    /\ [](pcCount = 16 => pc = Zero4)

\* the sixteenth advance from the zero state
C8_Witness_WrapAround ==
    op[1] = "PC.advance" /\ pcCount = 16 /\ pc = Zero4

----------------------------------------------------------------------------
(* Ring counter *)

RingNext_nomod == ring + 1

RingNext == (ring + 1) % n_time_states

RingAdvance ==
    /\ Len(ringHist) <= MaxN + RingExtra
    /\ ring' = RingNext
    /\ ringHist' = Append(ringHist, ring')
    /\ op' = <<"RingCounter.advance">> /\ ret' = "None" /\ err' = "none"
    /\ UNCHANGED <<n_time_states, aluVars, flagVars, ramVars, pcVars, codecVars, extVars>>

RingRead ==
    /\ op' = <<"RingCounter.read">> /\ ret' = ring /\ err' = "none"
    /\ UNCHANGED <<ringVars, aluVars, flagVars, ramVars, pcVars, codecVars, extVars>>

\* RingCounter(n_time_states) for a modulus n >= 1
InitRing == Constructed /\ n_time_states \in 1..MaxN

NextRing == RingAdvance \/ RingRead

SpecRing == InitRing /\ [][NextRing]_vars

\* C9: for a RingCounter of modulus n >= 1, read() is always in 0..n-1;
\* after k < n advances from construction read() = k; and n consecutive
\* advances from any state bring read() back to the value it had.
C9_RingCycles ==
    /\ ring \in 0..(n_time_states - 1)
    /\ ring = ringHist[Len(ringHist)]
    /\ (op[1] = "RingCounter.read") => ret = ringHist[Len(ringHist)]
    /\ \A k \in 0..(Len(ringHist) - 1) :
          k < n_time_states => ringHist[k + 1] = k
    /\ \A i \in 1..Len(ringHist) :
          i + n_time_states <= Len(ringHist) => ringHist[i + n_time_states] = ringHist[i]

\* a counter of modulus at least 3 that has gone round once and one step further
C9_Witness_SecondLap ==
    /\ n_time_states >= 3 /\ Len(ringHist) = n_time_states + 2
    /\ op[1] = "RingCounter.read" /\ ret = 1

----------------------------------------------------------------------------
(* Round trip through the numeric codec *)

\* binary_to_decimal applied to the word under conversion
Decode ==
    /\ op[1] = "init"
    /\ cv' = binary_to_decimal(cw)
    /\ op' = <<"binary_to_decimal", cw>> /\ ret' = cv' /\ err' = "none"
    /\ UNCHANGED <<cw, cr, aluVars, flagVars, ramVars, pcVars, ringVars, extVars>>

\* decimal_to_binary(., 8) applied to the decoded integer
Encode ==
    /\ op[1] = "binary_to_decimal"
    /\ cr' = decimal_to_binary(cv, 8)
    /\ op' = <<"decimal_to_binary", cv, 8>> /\ ret' = cr' /\ err' = "none"
    /\ UNCHANGED <<cw, cv, aluVars, flagVars, ramVars, pcVars, ringVars, extVars>>

InitCodec ==
    /\ a = Zero8 /\ b = Zero8 /\ alu = Zero8 /\ carry = 0
    /\ acc = Zero8 /\ minus = 0 /\ zero = 0
    /\ ram = [i \in 0..15 |-> Zero8] /\ ramLog = <<>>
    /\ pc = Zero4 /\ pcCount = 0
    /\ n_time_states = 1 /\ ring = 0 /\ ringHist = <<0>>
    /\ cw \in Words(8) /\ cv = 0 /\ cr = Zero8
    /\ op = <<"init">> /\ ret = "None" /\ err = "none"
    /\ ExtConstructed

NextCodec == Decode \/ Encode

SpecCodec == InitCodec /\ [][NextCodec]_vars

\* C10: for every 8-bit word w, decimal_to_binary(binary_to_decimal(w), 8) = w.
C10_RoundTripWord ==
    (op[1] = "decimal_to_binary") => (err = "none" /\ ret = cw /\ Len(ret) = 8)

\* the round trip of 10000000, the word that decodes to -128
C10_Witness_MostNegative ==
    op[1] = "decimal_to_binary" /\ cw = Enc8(128) /\ cv = -128 /\ ret = cw

----------------------------------------------------------------------------
(* Round trip through the numeric codec, starting from an integer *)

\* decimal_to_binary(., 8) applied to the integer under conversion
EncodeValue ==
    /\ op[1] = "init"
    /\ cw' = decimal_to_binary(cv, 8)
    /\ op' = <<"decimal_to_binary", cv, 8>> /\ ret' = cw' /\ err' = "none"
    /\ UNCHANGED <<cv, cr, aluVars, flagVars, ramVars, pcVars, ringVars, extVars>>

\* binary_to_decimal applied to the encoded word
DecodeEncoded ==
    /\ op[1] = "decimal_to_binary"
    /\ op' = <<"binary_to_decimal", cw>>
    /\ ret' = binary_to_decimal(cw) /\ err' = "none"
    /\ UNCHANGED <<codecVars, aluVars, flagVars, ramVars, pcVars, ringVars, extVars>>

InitValueCodec ==
    /\ a = Zero8 /\ b = Zero8 /\ alu = Zero8 /\ carry = 0
    /\ acc = Zero8 /\ minus = 0 /\ zero = 0
    /\ ram = [i \in 0..15 |-> Zero8] /\ ramLog = <<>>
    /\ pc = Zero4 /\ pcCount = 0
    /\ n_time_states = 1 /\ ring = 0 /\ ringHist = <<0>>
    /\ cw = Zero8 /\ cv \in -128..127 /\ cr = Zero8
    /\ op = <<"init">> /\ ret = "None" /\ err = "none"
    /\ ExtConstructed

NextValueCodec == EncodeValue \/ DecodeEncoded

SpecValueCodec == InitValueCodec /\ [][NextValueCodec]_vars

\* C11: for every integer v in -128..127, decimal_to_binary(v, 8) is exactly
\* 8 characters long and binary_to_decimal(decimal_to_binary(v, 8)) = v.
C11_RoundTripValue ==
    /\ (op[1] = "decimal_to_binary") =>
          (err = "none" /\ Len(ret) = 8 /\ ret = Enc8(cv))
    /\ (op[1] = "binary_to_decimal") =>
          (err = "none" /\ Len(cw) = 8 /\ ret = cv)

\* the round trip of -128, which encodes to 10000000
C11_Witness_MostNegative ==
    op[1] = "binary_to_decimal" /\ cv = -128 /\ cw = Enc8(128) /\ ret = -128

----------------------------------------------------------------------------
(* Word widths under unvalidated Register.write *)

\* words handed to Register.write of a ByteRegister: two of width 8, one of
\* width 7 and one of width 9
ByteWriteData ==
    {Enc8(1), Enc8(255), [i \in 1..7 |-> "1"],
     [i \in 1..9 |-> IF i = 1 THEN "0" ELSE "1"]}

\* words handed to Register.write of a NibbleRegister: widths 4, 3 and 5
NibbleWriteData ==
    {Enc4(15), [i \in 1..3 |-> "1"], [i \in 1..5 |-> IF i = 1 THEN "1" ELSE "0"]}

InitWidth == Constructed /\ n_time_states = 1

NextWidth ==
    \/ \E data \in ByteWriteData : WriteA(data)
    \/ \E data \in ByteWriteData : WriteB(data)
    \/ \E data \in NibbleWriteData : PCWrite(data)
    \/ \E data \in {PyStr(Enc8(165)), PyStr([i \in 1..7 |-> "1"])}, address \in {0, 15} :
          RAMWrite(data, address)
    \/ PCAdvance
    \/ \E mode \in Modes : ALUUpdate(mode)
    \/ \E mode \in Modes : ALURead(mode)

SpecWidth == InitWidth /\ [][NextWidth]_vars

\* every ByteRegister holds 8 characters and every NibbleRegister holds 4
WidthOK ==
    /\ Len(a) = 8 /\ Len(b) = 8 /\ Len(alu) = 8 /\ Len(acc) = 8 /\ Len(ir) = 8
    /\ \A x \in 0..15 : Len(ram[x]) = 8
    /\ Len(pc) = 4

\* C12 (as claimed): in every state reachable by any sequence of
\* Register.write, RAM.write, ProgramCounter.advance and ALU.update/read,
\* every ByteRegister (ALU and RAM cells included) holds exactly 8 characters
\* and every NibbleRegister (ProgramCounter included) exactly 4.
C12_Original_WidthAlways == WidthOK

\* a Register.write whose argument does not have the register's width
MisfitWrite ==
    \/ op'[1] \in {"a.write", "b.write", "acc.write"} /\ Len(op'[2]) # 8
    \/ op'[1] = "PC.write" /\ Len(op'[2]) # 4

\* C12 (amended): the widths hold after construction and are preserved by
\* every operation except a Register.write that is handed a word of another
\* length; so they hold in every state reached by operations in which each
\* Register.write gets a word of the register's width.
C12_WidthPreserved ==
    /\ (op[1] = "init" => WidthOK)
    /\ [][(WidthOK /\ ~MisfitWrite) => WidthOK']_vars

\* the ALU has added 1 and 1, and the program counter has wrapped from 1111
C12_Witness_WidthKept ==
    /\ WidthOK /\ a = Enc8(1) /\ b = Enc8(1) /\ alu = Enc8(2)
    /\ op[1] = "PC.advance" /\ pc = Zero4 /\ pcCount = -1
    /\ Len(ramLog) > 0

----------------------------------------------------------------------------
\* C13: ALU.read(mode) returns the result computed from the words currently
\* in a and b with the mode passed to this call, whatever the ALU stored
\* before and whatever the mode of any earlier update or read; the read
\* stores that word and leaves the operands alone.
C13_ReadNeverStale ==
    [][(op'[1] = "ALU.read") =>
          /\ err' = "none"
          /\ ret' = Enc8(IF op'[2] = "add" THEN Signed8(a) + Signed8(b)
                                          ELSE Signed8(a) - Signed8(b))
          /\ alu' = ret'
          /\ a' = a /\ b' = b]_vars

\* a subtracting read whose result differs from the sum of the operands
C13_Witness_SubAfterAdd ==
    /\ op = <<"ALU.read", "sub">>
    /\ ret = Enc8(Signed8(a) - Signed8(b))
    /\ ret # Enc8(Signed8(a) + Signed8(b))
    /\ carry = 1

----------------------------------------------------------------------------
(* Instruction register *)

\* s[lo:]
SliceFrom(s, lo) == SubSeq(s, lo + 1, Len(s))

\* Register.write on the instruction register
IRWrite(data) ==
    /\ ir' = data
    /\ op' = <<"IR.write", data>> /\ ret' = "None" /\ err' = "none"
    /\ UNCHANGED <<zeroAlu, hexVars, clockVars, aluVars, flagVars, ramVars,
                   pcVars, ringVars, codecVars>>

IRRead ==
    /\ op' = <<"IR.read">> /\ ret' = ir /\ err' = "none"
    /\ UNCHANGED <<aluVars, flagVars, ramVars, pcVars, ringVars, codecVars, extVars>>

readOpCode == Slice(ir, 0, 4)

readOperand_from5 == SliceFrom(ir, 5)

readOperand == SliceFrom(ir, 4)

IRReadOpCode ==
    /\ op' = <<"IR.readOpCode">> /\ ret' = readOpCode /\ err' = "none"
    /\ UNCHANGED <<aluVars, flagVars, ramVars, pcVars, ringVars, codecVars, extVars>>

IRReadOperand ==
    /\ op' = <<"IR.readOperand">> /\ ret' = readOperand /\ err' = "none"
    /\ UNCHANGED <<aluVars, flagVars, ramVars, pcVars, ringVars, codecVars, extVars>>

InitIR == Constructed /\ n_time_states = 1

NextIR ==
    \/ \E data \in Words(8) : IRWrite(data)
    \/ IRRead
    \/ IRReadOpCode
    \/ IRReadOperand

SpecIR == InitIR /\ [][NextIR]_vars

\* C14: for every 8-bit word w written to an InstructionRegister,
\* readOpCode() returns the first 4 characters of w and readOperand() the
\* last 4, their concatenation equals read(), neither call changes the
\* stored word, and both reflect the most recent write.
C14_NibbleViews ==
    /\ [][(op'[1] = "IR.write") => ir' = op'[2]]_vars
    /\ [][(op'[1] \in {"IR.read", "IR.readOpCode", "IR.readOperand"}) =>
             (ir' = ir /\ err' = "none")]_vars
    /\ []((op[1] = "IR.read") => ret = ir)
    /\ []((op[1] = "IR.readOpCode") => ret = [i \in 1..4 |-> ir[i]])
    /\ []((op[1] = "IR.readOperand") => ret = [i \in 1..4 |-> ir[i + 4]])
    /\ [][(op[1] = "IR.readOpCode" /\ op'[1] = "IR.readOperand") =>
             ret \o ret' = ir']_vars

\* the operand view of 10100101 is 0101
C14_Witness_Operand ==
    op[1] = "IR.readOperand" /\ ir = Enc8(165) /\ ret = Enc4(5)

----------------------------------------------------------------------------
\* C15: FlagCarry.read() returns the bit stored by the most recent explicit
\* FlagCarry.update() (0 if there was none) and never recomputes: operand
\* writes, ALU.update, ALU.read and FlagCarry.read leave the stored bit
\* unchanged, so a read can differ from what update() would compute now.
C15_CarryReadStored ==
    /\ (op[1] = "init" => carry = 0)
    /\ [][(op'[1] \in {"a.write", "b.write", "ALU.update", "ALU.read", "FlagCarry.read"}) =>
             carry' = carry]_vars
    /\ [][(op'[1] = "FlagCarry.update") =>
             carry' = (IF Signed8(a') + Signed8(b') > 127 THEN 1 ELSE 0)]_vars
    /\ [][(op'[1] = "FlagCarry.read") => (err' = "none" /\ ret' = carry)]_vars

\* a read that returns 0 although update() would now store 1
C15_Witness_StaleRead ==
    /\ op[1] = "FlagCarry.read" /\ ret = 0
    /\ Signed8(a) + Signed8(b) > 127

----------------------------------------------------------------------------
(* hex_to_binary *)

\* longest string of hexadecimal digits passed to hex_to_binary
MaxHexLen == 3
\* largest bit_width passed to hex_to_binary
MaxWidth == 8

HexChars == {"0", "1", "2", "3", "4", "5", "6", "7", "8", "9",
             "a", "b", "c", "d", "e", "f"}

\* value of one hexadecimal digit
HexVal(c) ==
    CASE c = "0" -> 0  [] c = "1" -> 1  [] c = "2" -> 2  [] c = "3" -> 3
      [] c = "4" -> 4  [] c = "5" -> 5  [] c = "6" -> 6  [] c = "7" -> 7
      [] c = "8" -> 8  [] c = "9" -> 9  [] c = "a" -> 10 [] c = "b" -> 11
      [] c = "c" -> 12 [] c = "d" -> 13 [] c = "e" -> 14 [] c = "f" -> 15

\* s.lstrip(chars): drop every leading character that is in chars
RECURSIVE lstrip(_, _)
lstrip(s, chars) ==
    IF Len(s) > 0 /\ s[1] \in chars THEN lstrip(Tail(s), chars) ELSE s

\* whether int(s, 16) accepts s, for s without sign, prefix or blanks
int16_parses(s) == Len(s) > 0 /\ \A i \in 1..Len(s) : s[i] \in HexChars

\* int(s, 16)
RECURSIVE int16(_)
int16(s) ==
    IF Len(s) = 0 THEN 0
    ELSE 16 * int16(SubSeq(s, 1, Len(s) - 1)) + HexVal(s[Len(s)])

\* whether hex_to_binary returns rather than raising ValueError
hex_to_binary_returns(hex_number) == int16_parses(lstrip(hex_number, {"0", "x"}))

hex_to_binary(hex_number, bit_width) ==
    Slice(zfill(bin_2(int16(lstrip(hex_number, {"0", "x"}))), bit_width), 0, bit_width)

\* the argument of the call: the digits, with the 0x prefix when hp
HexArgument == (IF hp THEN <<"0", "x">> ELSE <<>>) \o hx

HexToBinary ==
    /\ op[1] = "init"
    /\ op' = <<"hex_to_binary", HexArgument, hw>>
    /\ IF hex_to_binary_returns(HexArgument)
       THEN ret' = hex_to_binary(HexArgument, hw) /\ err' = "none"
       ELSE ret' = "None" /\ err' = "ValueError"
    /\ UNCHANGED <<aluVars, flagVars, ramVars, pcVars, ringVars, codecVars, extVars>>

\* digits drawn from both ends of the range, leading zeros included
HexAlphabet == {"0", "1", "8", "f"}

HexStrings == UNION {[1..n -> HexAlphabet] : n \in 1..MaxHexLen}

InitHex ==
    /\ CoreConstructed /\ n_time_states = 1
    /\ ir = Zero8 /\ zeroAlu = 0
    /\ hx \in HexStrings /\ hp \in BOOLEAN /\ hw \in 1..MaxWidth
    /\ clock = 0 /\ logFile = <<>> /\ clockCalls = <<>>

NextHex == HexToBinary

SpecHex == InitHex /\ [][NextHex]_vars

\* base-16 value of a string of hexadecimal digits of length at most 4
HexValue(s) ==
    LET n == Len(s)
    IN  (IF n >= 1 THEN HexVal(s[n]) ELSE 0)
        + (IF n >= 2 THEN 16 * HexVal(s[n - 1]) ELSE 0)
        + (IF n >= 3 THEN 256 * HexVal(s[n - 2]) ELSE 0)
        + (IF n >= 4 THEN 4096 * HexVal(s[n - 3]) ELSE 0)

\* the w low-order bits of v, most significant first
LowBits(v, w) == [i \in 1..w |-> IF (v \div 2^(w - i)) % 2 = 1 THEN "1" ELSE "0"]

\* the w high-order bits of v when v needs more than w bits, else v zero-padded
RECURSIVE HighBits(_, _)
HighBits(v, w) == IF v >= 2^w THEN HighBits(v \div 2, w) ELSE LowBits(v, w)

\* C16: for every valid hexadecimal string h and width w, hex_to_binary(h, w)
\* returns exactly w characters: the value zero-padded when it needs fewer
\* than w bits, and its low-order w bits when it needs more.
C16_KeepsLowOrderBits ==
    (op[1] = "hex_to_binary") =>
        /\ err = "none"
        /\ Len(ret) = hw
        /\ ret = LowBits(HexValue(hx), hw)

\* C17: for every non-empty string h of hexadecimal digits (all zeros and
\* leading zeros included) and every width, hex_to_binary("0x" + h, w) and
\* hex_to_binary(h, w) both succeed and give the same word, the encoding of
\* the base-16 value of h.
C17_PrefixStripped ==
    (op[1] = "hex_to_binary") =>
        /\ err = "none"
        /\ Len(ret) = hw
        /\ ret = HighBits(HexValue(hx), hw)

----------------------------------------------------------------------------
(* Clock and log file *)

\* number of Clock.advance calls in one behaviour
MaxTicks == 6

\* str(cpu) of the snapshots passed to Clock.advance
Snapshots == {"cpu1", "cpu2"}

\* what the file holds when the Clock is constructed: nothing, or the log
\* of an earlier session
PriorLogs == {<<>>, <<"old", "\n">>}

\* always opened in append mode
LogAfter_append(snapshot) == logFile \o <<snapshot, "\n">>

\* the file after the write of f"{cpu}\n": opened with "w" when the counter
\* is 0, with "a" otherwise
LogAfter(snapshot) ==
    IF clock = 0
    THEN <<snapshot, "\n">>
    ELSE logFile \o <<snapshot, "\n">>

ClockAdvance(snapshot) ==
    /\ clock < MaxTicks
    /\ logFile' = LogAfter(snapshot)
    /\ clock' = clock + 1
    /\ clockCalls' = Append(clockCalls, snapshot)
    /\ op' = <<"Clock.advance", snapshot>> /\ ret' = "None" /\ err' = "none"
    /\ UNCHANGED <<ir, zeroAlu, hexVars, aluVars, flagVars, ramVars, pcVars,
                   ringVars, codecVars>>

InitClock ==
    /\ CoreConstructed /\ n_time_states = 1
    /\ ir = Zero8 /\ zeroAlu = 0
    /\ hx = <<"0">> /\ hp = FALSE /\ hw = 8
    /\ clock = 0 /\ logFile \in PriorLogs /\ clockCalls = <<>>

NextClock == \E snapshot \in Snapshots : ClockAdvance(snapshot)

SpecClock == InitClock /\ [][NextClock]_vars

\* one newline-terminated record per call, in call order
RenderedLog(calls) ==
    [i \in 1..(2 * Len(calls)) |-> IF i % 2 = 1 THEN calls[(i + 1) \div 2] ELSE "\n"]

\* C18: Clock.advance increases the step counter by exactly 1 on every call,
\* so the counter equals the number of calls; the file is truncated only on
\* the call made with counter 0 and appended to afterwards, so after k >= 1
\* calls on a fresh Clock it holds exactly the k records of those calls in
\* call order, whatever it held before the first tick.
C18_LogHoldsTicks ==
    /\ [][(op'[1] = "Clock.advance") => (clock' = clock + 1 /\ err' = "none")]_vars
    /\ [](clock = Len(clockCalls))
    /\ [](clock >= 1 => logFile = RenderedLog(clockCalls))

\* three ticks with differing snapshots
C18_Witness_ThreeTicks ==
    /\ clock = 3 /\ clockCalls[1] # clockCalls[2]
    /\ Len(logFile) = 6 /\ logFile[1] = clockCalls[1] /\ logFile[5] = clockCalls[3]

----------------------------------------------------------------------------
(* A Zero flag whose watched source is the ALU *)

\* the flag looks at the stored word without asking the ALU to update
WatchedALUWord_stored == alu

\* self.reg.read() on the ALU: read(mode='add'), which updates first
WatchedALUWord == ALUResult("add")

\* FlagZero.update on the ALU: the read stores the add-mode word in the ALU
FlagZeroALUUpdate ==
    /\ alu' = WatchedALUWord
    /\ zeroAlu' = IF binary_to_decimal(alu') = 0 THEN 1 ELSE 0
    /\ op' = <<"FlagZeroALU.update">> /\ ret' = "None" /\ err' = "none"
    /\ UNCHANGED <<a, b, carry, ir, hexVars, clockVars, flagVars, ramVars,
                   pcVars, ringVars, codecVars>>

FlagZeroALURead ==
    /\ alu' = WatchedALUWord
    /\ zeroAlu' = IF binary_to_decimal(alu') = 0 THEN 1 ELSE 0
    /\ op' = <<"FlagZeroALU.read">> /\ ret' = zeroAlu' /\ err' = "none"
    /\ UNCHANGED <<a, b, carry, ir, hexVars, clockVars, flagVars, ramVars,
                   pcVars, ringVars, codecVars>>

InitALUZero == Constructed /\ n_time_states = 1

NextALUZero ==
    \/ \E data \in OperandWords : WriteA(data)
    \/ \E data \in OperandWords : WriteB(data)
    \/ \E mode \in Modes : ALUUpdate(mode)
    \/ \E mode \in Modes : ALURead(mode)
    \/ FlagZeroALUUpdate
    \/ FlagZeroALURead

SpecALUZero == InitALUZero /\ [][NextALUZero]_vars

\* C19: FlagZero.read() on a flag that watches the ALU reads the ALU in its
\* default add mode: it returns 1 iff signed(a) + signed(b) wraps to 0
\* modulo 2^8, whatever the mode of the last ALU.update/read; it overwrites
\* the ALU's stored word with the add-mode result and leaves a and b alone.
C19_ZeroReadsAddMode ==
    [][(op'[1] = "FlagZeroALU.read") =>
          /\ err' = "none"
          /\ ret' = (IF (Signed8(a) + Signed8(b)) % 256 = 0 THEN 1 ELSE 0)
          /\ alu' = Enc8(Signed8(a) + Signed8(b))
          /\ a' = a /\ b' = b]_vars

\* the flag reads 1 for nonzero operands whose sum is 0 and whose difference is not
C19_Witness_SumZero ==
    /\ op[1] = "FlagZeroALU.read" /\ ret = 1
    /\ a # Zero8 /\ Enc8(Signed8(a) - Signed8(b)) # Zero8
    /\ alu = Zero8

====
